---- MODULE Spec2Model ----
(***************************************************************************)
(* gitrows-go: a Git repository used as a key-value store.                 *)
(*                                                                         *)
(* The model follows src/gitrow_impl.go step by step.  One remote          *)
(* repository holds one branch reference.  Every handle (DBImpl) owns a    *)
(* local mirror: a repository with HEAD, the local branch reference, an    *)
(* index (staging area) and a working area.  A call (Get, Create, Upsert,  *)
(* Delete, List) is a sequence of steps: gitClone, gitFetch, gitCheckout, the    *)
(* operation's own step(s), commit and push.  Steps of different callers   *)
(* interleave.  The go-git calls are modelled by their documented          *)
(* behaviour at the call site that uses them.                              *)
(***************************************************************************)
EXTENDS Naturals, Sequences, FiniteSets, TLC

\* ---------------------------------------------------------------- bounds
MaxHistory == 2          \* longest revision history (root to tip)
MaxOpts == 2             \* most commit-message options passed to one call
MaxMsg == 3              \* longest message given in an option

Procs   == {"p1", "p2"}  \* concurrent callers
\* p1 is the caller under observation: it makes every kind of call and any
\* of its steps may fail.  p2 is a second
\* writer: it runs Upsert(k2) with empty commits allowed, so that each of its
\* calls creates a revision, and its steps do not fail.
OpsOf(p) ==
    IF p = "p1" THEN {"Get", "Create", "Upsert", "Delete", "List"} ELSE {"Upsert"}
Faulty(p) == p = "p1"
Mirrors == {"m1", "m2"}  \* local mirrors (one per handle)
Keys    == {"k1", "k2"}  \* keys (cleaned relative paths)
\* Byte contents a caller passes for a key: two of different length for k1
\* (an overwrite by a longer and by a shorter content), one for k2.
Data(k) == IF k = "k1" THEN {<<1>>, <<2, 1>>} ELSE {<<1>>}


\* Keys below directories, for the calls that name a directory: "d/k1" lies
\* in directory "d", "d/e/k1" in directory "d/e" below "d".
DirKeys == {"k1", "d", "d/k1", "d/e/k1"}

\* The directories on the path to a key, and path.Dir(key).
Ancestors(k) ==
    CASE k = "d/k1" -> {"d"}
      [] k = "d/e/k1" -> {"d", "d/e"}
      [] OTHER -> {}

Dir(k) ==
    CASE k = "d/k1" -> "d"
      [] k = "d/e/k1" -> "d/e"
      [] OTHER -> "."

\* A revision is identified, as by its hash, by its own content and its whole
\* ancestry: the sequence of commits from the root to itself, each commit
\* [tree, by] (the tree it records and the caller that committed it).
NoRev   == <<>>          \* no revision (reference not found)

\* ----------------------------------------------------------------- state
VARIABLES
    remote,      \* the remote's branch reference (NoRev: empty remote)
    repo,        \* repo[m]: the local repository exists on disk
    linked,      \* linked[m]: remote "origin" is configured
    head,        \* head[m]: HEAD is symbolic to "branch" (db.gitBranch) or "default"
    branchRef,   \* branchRef[m]: refs/heads/<db.gitBranch>
    defaultRef,  \* defaultRef[m]: refs/heads/master when it is another branch
    index,       \* index[m]: staging area, a tree
    wt,          \* wt[m]: working area (worktree.Filesystem), a tree
    pc,          \* pc[p]: position of caller p inside its call
    call,        \* call[p]: the call in progress and what it has seen
    ret,         \* ret[p]: what the call returns
    prev,        \* prev[p]: summary of the caller's previous call, if remembered
    lock,        \* holder of the caller-provided distributed lock, or "none"
    mirrorOf,    \* mirrorOf[p]: the mirror the caller's handle owns
    initHead,    \* what PlainInit points HEAD to, relative to db.gitBranch
    useLock,     \* callers wrap every call in the distributed lock
    flock,       \* the advisory file locks held: <<mirror, key, caller>>
    kept,        \* kept[p]: the entries of a List result the caller still holds
    got,         \* got[p]: what the caller's last use of a content accessor gave
    cfg          \* the CreateConfig, UpsertConfig or DeleteConfig of a call
                 \* while its options are applied, and the message committed

mirrorVars == <<repo, linked, head, branchRef, defaultRef, index, wt>>
cfgVars    == <<mirrorOf, initHead, useLock, flock, kept, got, cfg>>
vars == <<remote, repo, linked, head, branchRef, defaultRef, index, wt,
          pc, call, ret, prev, lock, mirrorOf, initHead, useLock, flock,
          kept, got, cfg>>

\* --------------------------------------------------------------- helpers
\* A tree maps the paths that exist in it to their content (a byte sequence).
EmptyTree == [k \in {} |-> <<>>]

Has(t, k) == k \in DOMAIN t

Put(t, k, c) == [x \in DOMAIN t \cup {k} |-> IF x = k THEN c ELSE t[x]]

Del(t, k) == [x \in DOMAIN t \ {k} |-> t[x]]

\* k names a directory of the working area: a file lies below it.
IsDir(t, k) == \E x \in DOMAIN t : k \in Ancestors(x)

\* A component of k's path is a file (ENOTDIR).
NotDir(t, k) == \E a \in Ancestors(k) : Has(t, a)

TreeOf(c) == IF c = NoRev THEN EmptyTree ELSE c[Len(c)].tree

ParentOf(c) == IF c = NoRev THEN NoRev ELSE SubSeq(c, 1, Len(c) - 1)

\* c is tip or one of its ancestors.
RECURSIVE Reachable(_, _)
Reachable(c, tip) ==
    IF tip = NoRev \/ c = NoRev THEN FALSE
    ELSE IF c = tip THEN TRUE
    ELSE Reachable(c, ParentOf(tip))

\* Repository.Head(): HEAD resolved through its symbolic target.
HeadRev(m) == IF head[m] = "branch" THEN branchRef[m] ELSE defaultRef[m]

NoCall == [op |-> "none", key |-> "k1", data |-> <<>>, allowEmpty |-> FALSE,
           prefix |-> "", fetched |-> NoRev, tip |-> NoRev, pushed |-> NoRev]

NoRet == [err |-> "none", rev |-> NoRev, changed |-> FALSE, data |-> <<>>,
          kvs |-> {}]

\* What a caller knows of a completed call: the arguments, the results, the
\* remote tip its Synchronize fetched, and the remote tip it left behind
\* (`pub`: the revision it pushed, or the fetched one when it pushed none).
Summary(c, r) ==
    [op |-> c.op, key |-> c.key, data |-> c.data,
     err |-> r.err, rev |-> r.rev, changed |-> r.changed, fetched |-> c.fetched,
     pub |-> IF c.pushed # NoRev THEN c.pushed ELSE c.fetched]

NoPrev == Summary(NoCall, NoRet)

\* The calls whose summary is kept after they return: successful writes.
Remembered(c, r) == r.err = "none" /\ c.op \in {"Create", "Upsert", "Delete"}

\* No List result held; no content accessor used.
NoKept == [tip |-> NoRev, kvs |-> {}]
NoGot == [tip |-> NoRev, k |-> "k1", err |-> "unused", data |-> <<>>]

\* ------------------------------------------------------------------ Init
InitCommon ==
    /\ remote = NoRev
    /\ repo = [m \in Mirrors |-> FALSE]
    /\ linked = [m \in Mirrors |-> FALSE]
    /\ head = [m \in Mirrors |-> "branch"]
    /\ branchRef = [m \in Mirrors |-> NoRev]
    /\ defaultRef = [m \in Mirrors |-> NoRev]
    /\ index = [m \in Mirrors |-> EmptyTree]
    /\ wt = [m \in Mirrors |-> EmptyTree]
    /\ pc = [p \in Procs |-> "idle"]
    /\ call = [p \in Procs |-> NoCall]
    /\ ret = [p \in Procs |-> NoRet]
    /\ prev = [p \in Procs |-> NoPrev]
    /\ lock = "none"
    /\ flock = {}
    /\ kept = [p \in Procs |-> NoKept]
    /\ got = [p \in Procs |-> NoGot]
    /\ initHead \in {"branch", "default"}

\* No options under way.
NoCfg == [op |-> "none", opts |-> <<>>, given |-> <<>>, commitMsg |-> <<>>,
          at |-> "none", message |-> <<>>]

Init ==
    /\ InitCommon
    /\ mirrorOf = [p \in Procs |-> IF p = "p1" THEN "m1" ELSE "m2"]
    /\ useLock = FALSE
    /\ cfg = NoCfg

\* --------------------------------------------------------------- schedule
\* A step at one of these positions touches only the caller's own mirror and
\* results: it commutes with every step of a caller that owns another mirror.
\* Such steps are taken first (a partial-order reduction); callers that share
\* a mirror interleave at every step.
LocalPcs ==
    {"checkout", "read", "list", "write", "status", "remove", "commit", "done"}

Sched(p) ==
    \A q \in Procs \ {p} : mirrorOf[q] # mirrorOf[p] => pc[q] \notin LocalPcs

\* ------------------------------------------------------------- call entry
OpStep(op) ==
    CASE op = "Get" -> "read"
      [] op = "Create" -> "write"
      [] op = "Upsert" -> "write"
      [] op = "Delete" -> "remove"
      [] op = "List" -> "list"

\* An error return: the named results keep what was assigned before it.
Fail(p, e) ==
    /\ pc' = [pc EXCEPT ![p] = "done"]
    /\ ret' = [ret EXCEPT ![p].err = e]

\* A caller enters Get, Create, Upsert, Delete or List; path.Clean(key) is
\* the key (List takes none).
Call(p) ==
    /\ pc[p] = "idle"
    /\ Sched(p)
    /\ useLock => lock = "none"
    /\ lock' = IF useLock THEN p ELSE lock
    /\ \E op \in OpsOf(p), k \in Keys, ae \in BOOLEAN : \E d \in Data(k) :
          /\ op \in {"Get", "Delete", "List"} => d = <<1>>
          /\ op = "List" => k = "k1"
          /\ op # "Upsert" => ae = FALSE
          /\ ~Faulty(p) => k = "k2" /\ ae = TRUE
          /\ call' = [call EXCEPT ![p] =
                 [op |-> op, key |-> k,
                  data |-> IF op \in {"Get", "Delete", "List"} THEN <<>> ELSE d,
                  allowEmpty |-> ae, prefix |-> "", fetched |-> NoRev,
                  tip |-> NoRev, pushed |-> NoRev]]
    /\ ret' = [ret EXCEPT ![p] = NoRet]
    /\ pc' = [pc EXCEPT ![p] = "clone"]
    /\ UNCHANGED <<remote, mirrorVars, prev, cfgVars>>

\* ------------------------------------------------------------ Synchronizer
\* A clone that returns ErrRepositoryAlreadyExists to the caller.
gitCloneStrict(p) ==
    LET m == mirrorOf[p] IN
    /\ pc[p] = "clone"
    /\ Sched(p)
    /\ IF repo[m]
       THEN /\ Fail(p, "exists")
            /\ UNCHANGED repo
       ELSE /\ repo' = [repo EXCEPT ![m] = TRUE]
            /\ pc' = [pc EXCEPT ![p] = "fetch"]
            /\ UNCHANGED ret
    /\ UNCHANGED <<remote, linked, head, branchRef, defaultRef, index, wt, call,
                   prev, lock, cfgVars>>

\* gitClone: PlainCloneContext (depth 1, single branch, NoCheckout), with
\* ErrRepositoryAlreadyExists discarded and PlainInit on an empty remote.
gitClone(p) ==
    LET m == mirrorOf[p] IN
    /\ pc[p] = "clone"
    /\ Sched(p)
    /\ \/ /\ repo[m]                       \* ErrRepositoryAlreadyExists
          /\ pc' = [pc EXCEPT ![p] = "fetch"]
          /\ UNCHANGED <<mirrorVars, ret>>
       \/ /\ ~repo[m]                      \* transport error; directory cleaned
          /\ Faulty(p)
          /\ Fail(p, "sync")
          /\ UNCHANGED mirrorVars
       \/ /\ ~repo[m]                      \* ErrEmptyRemoteRepository: PlainInit
          /\ remote = NoRev
          /\ repo' = [repo EXCEPT ![m] = TRUE]
          /\ head' = [head EXCEPT ![m] = initHead]
          /\ linked' = [linked EXCEPT ![m] = FALSE]
          /\ branchRef' = [branchRef EXCEPT ![m] = NoRev]
          /\ defaultRef' = [defaultRef EXCEPT ![m] = NoRev]
          /\ index' = [index EXCEPT ![m] = EmptyTree]
          /\ wt' = [wt EXCEPT ![m] = EmptyTree]
          /\ pc' = [pc EXCEPT ![p] = "fetch"]
          /\ UNCHANGED ret
       \/ /\ ~repo[m]                      \* clone of the branch, no checkout
          /\ remote # NoRev
          /\ repo' = [repo EXCEPT ![m] = TRUE]
          /\ head' = [head EXCEPT ![m] = "branch"]
          /\ linked' = [linked EXCEPT ![m] = TRUE]
          /\ branchRef' = [branchRef EXCEPT ![m] = remote]
          /\ defaultRef' = [defaultRef EXCEPT ![m] = NoRev]
          /\ index' = [index EXCEPT ![m] = EmptyTree]
          /\ wt' = [wt EXCEPT ![m] = EmptyTree]
          /\ pc' = [pc EXCEPT ![p] = "fetch"]
          /\ UNCHANGED ret
    /\ UNCHANGED <<remote, call, prev, lock, cfgVars>>

\* A fetch that also resets the index and the working area to the fetched
\* revision, as a pull would.
gitFetchReset(p) ==
    LET m == mirrorOf[p] IN
    /\ pc[p] = "fetch"
    /\ Sched(p)
    /\ linked' = [linked EXCEPT ![m] = TRUE]
    /\ branchRef' = [branchRef EXCEPT ![m] = remote]
    /\ index' = [index EXCEPT ![m] = TreeOf(remote)]
    /\ wt' = [wt EXCEPT ![m] = TreeOf(remote)]
    /\ call' = [call EXCEPT ![p].fetched = remote]
    /\ pc' = [pc EXCEPT ![p] = "checkout"]
    /\ UNCHANGED <<remote, repo, head, defaultRef, ret, prev, lock, cfgVars>>

\* A fetch that adds the remote "origin" without looking for it first: adding
\* a remote that exists is an error.
gitFetchRelink(p) ==
    LET m == mirrorOf[p] IN
    /\ pc[p] = "fetch"
    /\ Sched(p)
    /\ IF linked[m]
       THEN /\ Fail(p, "remote")
            /\ UNCHANGED <<linked, branchRef, call>>
       ELSE /\ linked' = [linked EXCEPT ![m] = TRUE]
            /\ branchRef' = [branchRef EXCEPT ![m] = remote]
            /\ call' = [call EXCEPT ![p].fetched = remote]
            /\ pc' = [pc EXCEPT ![p] = "checkout"]
            /\ UNCHANGED ret
    /\ UNCHANGED <<remote, repo, head, defaultRef, index, wt, prev, lock, cfgVars>>

\* A fetch whose transport error is recorded while the call goes on to its
\* operation step.
gitFetchOnward(p) ==
    LET m == mirrorOf[p] IN
    /\ pc[p] = "fetch"
    /\ Sched(p)
    /\ linked' = [linked EXCEPT ![m] = TRUE]
    /\ IF Faulty(p)
       THEN /\ ret' = [ret EXCEPT ![p].err = "sync"]
            /\ pc' = [pc EXCEPT ![p] = OpStep(call[p].op)]
       ELSE /\ pc' = [pc EXCEPT ![p] = "checkout"]
            /\ UNCHANGED ret
    /\ UNCHANGED <<remote, repo, head, branchRef, defaultRef, index, wt, call,
                   prev, lock, cfgVars>>

\* gitFetch: ensure remote "origin", then fetch +branch:branch at depth 1,
\* forced.  On an empty remote HEAD becomes symbolic to the branch.
gitFetch(p) ==
    LET m == mirrorOf[p] IN
    /\ pc[p] = "fetch"
    /\ Sched(p)
    /\ linked' = [linked EXCEPT ![m] = TRUE]
    /\ \/ /\ Faulty(p)                     \* transport error
          /\ Fail(p, "sync")
          /\ UNCHANGED <<head, branchRef, call>>
       \/ /\ remote = NoRev                \* ErrEmptyRemoteRepository
          /\ head' = [head EXCEPT ![m] = "branch"]
          /\ call' = [call EXCEPT ![p].fetched = NoRev]
          /\ pc' = [pc EXCEPT ![p] = "checkout"]
          /\ UNCHANGED <<branchRef, ret>>
       \/ /\ remote # NoRev                \* fetched, or NoErrAlreadyUpToDate
          /\ branchRef' = [branchRef EXCEPT ![m] = remote]
          /\ call' = [call EXCEPT ![p].fetched = remote]
          /\ pc' = [pc EXCEPT ![p] = "checkout"]
          /\ UNCHANGED <<head, ret>>
    /\ UNCHANGED <<remote, repo, defaultRef, index, wt, prev, lock, cfgVars>>

\* gitCheckout: hard reset to HEAD (skipped with ErrReferenceNotFound when
\* HEAD has no revision), then a forced checkout of the branch.
gitCheckout(p) ==
    LET m == mirrorOf[p]
        h == HeadRev(m)
    IN
    /\ pc[p] = "checkout"
    /\ Sched(p)
    /\ \/ /\ h = NoRev                     \* canCheckout = false
          /\ call' = [call EXCEPT ![p].tip = branchRef[m]]
          /\ pc' = [pc EXCEPT ![p] = OpStep(call[p].op)]
          /\ UNCHANGED <<head, index, wt, ret>>
       \/ /\ h # NoRev
          /\ branchRef[m] = NoRev          \* checkout: reference not found
          /\ index' = [index EXCEPT ![m] = TreeOf(h)]
          /\ wt' = [wt EXCEPT ![m] = TreeOf(h)]
          /\ Fail(p, "sync")
          /\ UNCHANGED <<head, call>>
       \/ /\ h # NoRev
          /\ branchRef[m] # NoRev
          /\ head' = [head EXCEPT ![m] = "branch"]
          /\ index' = [index EXCEPT ![m] = TreeOf(branchRef[m])]
          /\ wt' = [wt EXCEPT ![m] = TreeOf(branchRef[m])]
          /\ call' = [call EXCEPT ![p].tip = branchRef[m]]
          /\ pc' = [pc EXCEPT ![p] = OpStep(call[p].op)]
          /\ UNCHANGED ret
    /\ UNCHANGED <<remote, repo, linked, branchRef, defaultRef, prev, lock, cfgVars>>

forcePull(p) == gitClone(p) \/ gitFetch(p) \/ gitCheckout(p)

\* ------------------------------------------------------------------- Get
\* Get after forcePull: open the key read-only, lock, read all, unlock.
GetRead(p) ==
    LET m == mirrorOf[p]
        k == call[p].key
    IN
    /\ pc[p] = "read"
    /\ Sched(p)
    /\ \/ /\ ~Has(wt[m], k)                \* cannot open file
          /\ ~IsDir(wt[m], k)
          /\ Fail(p, "notfound")
       \/ /\ IsDir(wt[m], k)               \* opened a directory: cannot read
          /\ Fail(p, "read")
       \/ /\ Has(wt[m], k) \/ IsDir(wt[m], k) \* cannot acquire file lock
          /\ Faulty(p)
          /\ Fail(p, "lock")
       \/ /\ Has(wt[m], k)
          /\ ret' = [ret EXCEPT ![p].data = wt[m][k]]
          /\ pc' = [pc EXCEPT ![p] = "done"]
    /\ UNCHANGED <<remote, mirrorVars, call, prev, lock, cfgVars>>

\* ------------------------------------------------------------------ List
\* tree.Files() of a revision: one entry per record, its key and its content.
Files(c) == {[k |-> k, v |-> TreeOf(c)[k]] : k \in DOMAIN TreeOf(c)}

\* path.Clean of a prefix option.
Clean(pre) == IF pre = "" THEN "." ELSE pre

\* The ForEach over tree.Files(): a file is appended by the filter branch
\* when the filter is applied and its directory is the prefix, and by the
\* statements after that branch otherwise.
Listed(c, pre) ==
    {e \in Files(c) : Clean(pre) # "" /\ Dir(e.k) = pre}
        \cup {e \in Files(c) : ~(Clean(pre) # "" /\ Dir(e.k) = pre)}

\* The commit-graph index over the locally retained history of tip c: the
\* depths the retained window can have (the tip itself is always retained).
getCommitNodeIndex(c) == 1 .. Len(c)

\* The record at key k differs between revision i of c and its parent.
DiffersAt(c, i, k) ==
    \/ i = 1
    \/ Has(c[i].tree, k) # Has(c[i - 1].tree, k)
    \/ Has(c[i].tree, k) /\ Has(c[i - 1].tree, k) /\ c[i].tree[k] # c[i - 1].tree[k]

\* Last-modifying revision resolution over a retained window of depth n: per
\* path, the closest ancestor of the tip whose tree differs from its parent's
\* at that path, found only while the walk stays inside the window (a
\* revision whose parent is outside the window cannot be compared).  A path
\* with no such revision gets no answer.
getLastCommitForPaths(c, n, paths) ==
    LET lo == Len(c) - n + 1
        Known(i) == i >= lo /\ (i = 1 \/ i - 1 >= lo)
        found(k) == {i \in 1 .. Len(c) : Known(i) /\ DiffersAt(c, i, k)}
        last(k) == CHOOSE i \in found(k) : \A j \in found(k) : j <= i
    IN  [k \in {x \in paths : found(x) # {}} |-> SubSeq(c, 1, last(k))]

\* An entry list that keeps the resolution's answer and nothing else.
entryRowBare(c, kvs, revs) ==
    {[k |-> e.k, v |-> e.v,
      rev |-> IF e.k \in DOMAIN revs THEN revs[e.k] ELSE NoRev] : e \in kvs}

\* The output entries: the listed commit is each entry's last commit unless
\* the resolution has a revision for the key.
entryRow(c, kvs, revs) ==
    {[k |-> e.k, v |-> e.v,
      rev |-> IF e.k \in DOMAIN revs /\ revs[e.k] # NoRev THEN revs[e.k] ELSE c] :
        e \in kvs}

\* List after forcePull: the local branch reference, its commit, the files
\* of the commit's tree, and the last commit of each file.
List(p) ==
    LET m == mirrorOf[p]
        c == branchRef[m]
        kvIters == Listed(c, call[p].prefix)
        paths == {e.k : e \in kvIters}
    IN
    /\ pc[p] = "list"
    /\ Sched(p)
    /\ IF c = NoRev                         \* reference not found
       THEN Fail(p, "ref")
       ELSE /\ \E n \in getCommitNodeIndex(c) :
                  ret' = [ret EXCEPT ![p].kvs =
                             entryRow(c, kvIters, getLastCommitForPaths(c, n, paths))]
            /\ pc' = [pc EXCEPT ![p] = "done"]
    /\ UNCHANGED <<remote, mirrorVars, call, prev, lock, cfgVars>>

\* --------------------------------------------------------- Record Writer
\* File.Truncate(0)
Truncate(content) == <<>>

\* File.Write on a file opened with O_APPEND: the bytes go to the end.
Write(content, data) == content \o data

\* fs.OpenFile(key, O_APPEND|O_CREATE|O_RDWR): an absent file is created empty.
OpenFile(t, k) == IF Has(t, k) THEN t[k] ELSE <<>>

\* writeFile: Stat and the mode's precondition, open, lock, truncate, write,
\* `git add`.  `fault` is the first step that returns an error.
writeFile(p) ==
    LET m == mirrorOf[p]
        k == call[p].key
        opened == OpenFile(wt[m], k)
        written == Write(Truncate(opened), call[p].data)
    IN
    /\ pc[p] = "write"
    /\ Sched(p)
    /\ \/ /\ NotDir(wt[m], k)              \* fs.Stat fails, not with IsNotExist
          /\ Fail(p, "stat")
          /\ UNCHANGED <<index, wt>>
       \/ /\ call[p].op = "Create"         \* os.ErrExist
          /\ ~NotDir(wt[m], k)
          /\ Has(wt[m], k) \/ IsDir(wt[m], k)
          /\ Fail(p, "exists")
          /\ UNCHANGED <<index, wt>>
       \/ /\ call[p].op = "Upsert"         \* key is a directory
          /\ IsDir(wt[m], k)
          /\ Fail(p, "isdir")
          /\ UNCHANGED <<index, wt>>
       \/ /\ ~NotDir(wt[m], k)
          /\ ~IsDir(wt[m], k)
          /\ call[p].op = "Create" => ~Has(wt[m], k)
          /\ \E fault \in {"none", "lock", "write", "add"} :
               /\ ~Faulty(p) => fault = "none"
               /\ wt' = [wt EXCEPT ![m] = Put(@, k,
                     CASE fault = "lock" -> opened
                       [] fault = "write" -> Truncate(opened)
                       [] OTHER -> written)]
               /\ index' = [index EXCEPT ![m] =
                     IF fault = "none" THEN Put(@, k, written) ELSE @]
               /\ IF fault = "none"
                  THEN /\ pc' = [pc EXCEPT ![p] =
                              IF call[p].op = "Upsert" THEN "status" ELSE "commit"]
                       /\ UNCHANGED ret
                  ELSE Fail(p, fault)
    /\ UNCHANGED <<remote, repo, linked, head, branchRef, defaultRef,
                   call, prev, lock, cfgVars>>

\* Status.IsClean(): HEAD tree, index and working area agree on every path.
IsClean(m) == index[m] = TreeOf(HeadRev(m)) /\ wt[m] = index[m]

\* Upsert after writeFile: `git status`; unchanged content without
\* allowEmptyCommit returns HEAD's revision and changed = false.
UpsertStatus(p) ==
    LET m == mirrorOf[p]
        changed == ~IsClean(m)
    IN
    /\ pc[p] = "status"
    /\ Sched(p)
    /\ IF ~call[p].allowEmpty /\ ~changed
       THEN IF HeadRev(m) = NoRev
            THEN Fail(p, "head")
            ELSE /\ ret' = [ret EXCEPT ![p].rev = HeadRev(m), ![p].changed = FALSE]
                 /\ pc' = [pc EXCEPT ![p] = "done"]
       ELSE /\ ret' = [ret EXCEPT ![p].changed = changed]
            /\ pc' = [pc EXCEPT ![p] = "commit"]
    /\ UNCHANGED <<remote, mirrorVars, call, prev, lock, cfgVars>>

\* A Delete that takes a missing key for already deleted and goes on.
DeleteRemoveLax(p) ==
    LET m == mirrorOf[p]
        k == call[p].key
    IN
    /\ pc[p] = "remove"
    /\ Sched(p)
    /\ wt' = [wt EXCEPT ![m] = Del(@, k)]
    /\ index' = [index EXCEPT ![m] = Del(@, k)]
    /\ pc' = [pc EXCEPT ![p] = "commit"]
    /\ UNCHANGED <<remote, repo, linked, head, branchRef, defaultRef,
                   call, ret, prev, lock, cfgVars>>

\* Delete after forcePull: fs.Remove(key), then `git add key`.
DeleteRemove(p) ==
    LET m == mirrorOf[p]
        k == call[p].key
    IN
    /\ pc[p] = "remove"
    /\ Sched(p)
    /\ \/ /\ ~Has(wt[m], k)                \* cannot delete: not exist
          /\ Fail(p, "notfound")
          /\ UNCHANGED <<index, wt>>
       \/ /\ Has(wt[m], k)                 \* removed, but no index entry to drop
          /\ ~Has(index[m], k)
          /\ wt' = [wt EXCEPT ![m] = Del(@, k)]
          /\ Fail(p, "add")
          /\ UNCHANGED index
       \/ /\ Has(wt[m], k)
          /\ Has(index[m], k)
          /\ wt' = [wt EXCEPT ![m] = Del(@, k)]
          /\ index' = [index EXCEPT ![m] = Del(@, k)]
          /\ pc' = [pc EXCEPT ![p] = "commit"]
          /\ UNCHANGED ret
    /\ UNCHANGED <<remote, repo, linked, head, branchRef, defaultRef,
                   call, prev, lock, cfgVars>>

\* ------------------------------------------------- Transaction Committer
\* CommitOptions.All: tracked paths that are modified or deleted in the
\* working area are staged; untracked paths are not.
AutoAdd(m) ==
    [k \in {x \in DOMAIN index[m] : Has(wt[m], x)} |-> wt[m][k]]

\* worktree.Commit: the new revision has HEAD's revision as parent and the
\* index as tree, and HEAD's branch moves to it.  ErrEmptyCommit when the
\* tree equals the parent's and empty commits are not allowed.
Commit(p) ==
    LET m == mirrorOf[p]
        staged == AutoAdd(m)
        parent == HeadRev(m)
        allowEmpty == call[p].op = "Upsert" /\ call[p].allowEmpty
        new == Append(parent, [tree |-> staged, by |-> p])
    IN
    /\ pc[p] = "commit"
    /\ Sched(p)
    /\ index' = [index EXCEPT ![m] = staged]
    /\ IF ~allowEmpty /\ staged = TreeOf(parent)
       THEN /\ Fail(p, "commit")
            /\ UNCHANGED <<branchRef, defaultRef>>
       ELSE /\ Len(parent) < MaxHistory
            /\ IF head[m] = "branch"
               THEN /\ branchRef' = [branchRef EXCEPT ![m] = new]
                    /\ UNCHANGED defaultRef
               ELSE /\ defaultRef' = [defaultRef EXCEPT ![m] = new]
                    /\ UNCHANGED branchRef
            /\ ret' = [ret EXCEPT ![p].rev = new]
            /\ pc' = [pc EXCEPT ![p] = "push"]
    /\ UNCHANGED <<remote, repo, linked, head, wt, call, prev, lock, cfgVars>>

\* A publish that is not atomic: the transport error arrives after the remote
\* reference has moved.
PushPartial(p) ==
    LET m == mirrorOf[p] IN
    /\ pc[p] = "push"
    /\ Sched(p)
    /\ \/ /\ Faulty(p)
          /\ Fail(p, "push")
          /\ remote' = branchRef[m]
          /\ UNCHANGED call
       \/ /\ branchRef[m] # remote
          /\ branchRef[m] # NoRev
          /\ remote' = branchRef[m]
          /\ call' = [call EXCEPT ![p].pushed = branchRef[m]]
          /\ pc' = [pc EXCEPT ![p] = "done"]
          /\ UNCHANGED ret
    /\ UNCHANGED <<mirrorVars, prev, lock, cfgVars>>

\* A publish that answers a failure by running the call again from its
\* Synchronize.
PushRetry(p) ==
    LET m == mirrorOf[p] IN
    /\ pc[p] = "push"
    /\ Sched(p)
    /\ \/ /\ Faulty(p) \/ branchRef[m] = remote \/ branchRef[m] = NoRev
          /\ pc' = [pc EXCEPT ![p] = "clone"]
          /\ UNCHANGED <<remote, call, ret>>
       \/ /\ branchRef[m] # remote
          /\ branchRef[m] # NoRev
          /\ remote' = branchRef[m]
          /\ call' = [call EXCEPT ![p].pushed = branchRef[m]]
          /\ pc' = [pc EXCEPT ![p] = "done"]
          /\ UNCHANGED ret
    /\ UNCHANGED <<mirrorVars, prev, lock, cfgVars>>

\* PushContext(branch:branch, Force, Atomic): the remote reference becomes
\* the local branch reference whatever its ancestry; NoErrAlreadyUpToDate
\* (an error) when they are equal.
Push(p) ==
    LET m == mirrorOf[p] IN
    /\ pc[p] = "push"
    /\ Sched(p)
    /\ \/ /\ Faulty(p)                     \* transport error
          /\ Fail(p, "push")
          /\ UNCHANGED <<remote, call>>
       \/ /\ branchRef[m] = remote \/ branchRef[m] = NoRev
          /\ Fail(p, "push")               \* nothing to push
          /\ UNCHANGED <<remote, call>>
       \/ /\ branchRef[m] # remote
          /\ branchRef[m] # NoRev
          /\ remote' = branchRef[m]
          /\ call' = [call EXCEPT ![p].pushed = branchRef[m]]
          /\ pc' = [pc EXCEPT ![p] = "done"]
          /\ UNCHANGED ret
    /\ UNCHANGED <<mirrorVars, prev, lock, cfgVars>>

\* The call returns to its caller, who releases the distributed lock.
Return(p) ==
    /\ pc[p] = "done"
    /\ Sched(p)
    /\ pc' = [pc EXCEPT ![p] = "idle"]
    /\ prev' = [prev EXCEPT ![p] =
           IF Remembered(call[p], ret[p]) THEN Summary(call[p], ret[p]) ELSE NoPrev]
    /\ call' = [call EXCEPT ![p] = NoCall]
    /\ ret' = [ret EXCEPT ![p] = NoRet]
    /\ lock' = IF useLock THEN "none" ELSE lock
    /\ UNCHANGED <<remote, mirrorVars, cfgVars>>

Next ==
    \E p \in Procs :
        \/ Call(p)
        \/ gitClone(p)
        \/ gitFetch(p)
        \/ gitCheckout(p)
        \/ GetRead(p)
        \/ List(p)
        \/ writeFile(p)
        \/ UpsertStatus(p)
        \/ DeleteRemove(p)
        \/ Commit(p)
        \/ Push(p)
        \/ Return(p)

Spec == Init /\ [][Next]_vars

\* Every caller wraps each whole call in one external distributed lock
\* (README, WARNING).
InitLocked ==
    /\ InitCommon
    /\ mirrorOf = [p \in Procs |-> IF p = "p1" THEN "m1" ELSE "m2"]
    /\ useLock = TRUE
    /\ cfg = NoCfg

SpecLocked == InitLocked /\ [][Next]_vars

\* ------------------------------------------------- other workloads
\* The entry of a call with given arguments (as in Call); `pre` is the
\* ListPrefix option of a List ("" without the option).
Enter(p, op, k, d, ae, pre) ==
    /\ pc[p] = "idle"
    /\ Sched(p)
    /\ useLock => lock = "none"
    /\ lock' = IF useLock THEN p ELSE lock
    /\ call' = [call EXCEPT ![p] =
           [op |-> op, key |-> k, data |-> d, allowEmpty |-> ae, prefix |-> pre,
            fetched |-> NoRev, tip |-> NoRev, pushed |-> NoRev]]
    /\ ret' = [ret EXCEPT ![p] = NoRet]
    /\ pc' = [pc EXCEPT ![p] = "clone"]
    /\ UNCHANGED <<remote, mirrorVars, prev, cfgVars>>

\* Two handles on one key: p1 reads and creates, and its steps may fail; p2
\* upserts, deletes and reads, and its steps do not fail.
CallCross(p) ==
    \E op \in IF Faulty(p) THEN {"Get", "Create"} ELSE {"Get", "Upsert", "Delete"} :
        Enter(p, op, "k2", IF op \in {"Get", "Delete"} THEN <<>> ELSE <<1>>,
              FALSE, "")

\* One handle, whose steps may fail, on keys in and below directories; List
\* with and without the prefix option.
Prefixes == {"", "d"}

CallDirs(p) ==
    /\ Faulty(p)
    /\ \E op \in OpsOf(p), k \in DirKeys, pre \in Prefixes :
          /\ op = "List" => k = "k1"
          /\ op # "List" => pre = ""
          /\ Enter(p, op, k, IF op \in {"Create", "Upsert"} THEN <<1>> ELSE <<>>,
                   FALSE, pre)

NextDirs ==
    \E p \in Procs :
        \/ CallDirs(p)
        \/ gitClone(p)
        \/ gitFetch(p)
        \/ gitCheckout(p)
        \/ GetRead(p)
        \/ List(p)
        \/ writeFile(p)
        \/ UpsertStatus(p)
        \/ DeleteRemove(p)
        \/ Commit(p)
        \/ Push(p)
        \/ Return(p)

SpecDirs == Init /\ [][NextDirs]_vars

NextCross ==
    \E p \in Procs :
        \/ CallCross(p)
        \/ gitClone(p)
        \/ gitFetch(p)
        \/ gitCheckout(p)
        \/ GetRead(p)
        \/ writeFile(p)
        \/ UpsertStatus(p)
        \/ DeleteRemove(p)
        \/ Commit(p)
        \/ Push(p)
        \/ Return(p)

SpecCross == Init /\ [][NextCross]_vars

\* The return of a call, where the caller also remembers a Get or a List
\* whose Synchronize succeeded.
ReturnRead(p) ==
    /\ pc[p] = "done"
    /\ Sched(p)
    /\ pc' = [pc EXCEPT ![p] = "idle"]
    /\ prev' = [prev EXCEPT ![p] =
           IF \/ Remembered(call[p], ret[p])
              \/ call[p].op \in {"Get", "List"} /\ ret[p].err # "sync"
           THEN Summary(call[p], ret[p]) ELSE NoPrev]
    /\ call' = [call EXCEPT ![p] = NoCall]
    /\ ret' = [ret EXCEPT ![p] = NoRet]
    /\ lock' = IF useLock THEN "none" ELSE lock
    /\ UNCHANGED <<remote, mirrorVars, cfgVars>>

NextSync ==
    \E p \in Procs :
        \/ Call(p)
        \/ gitClone(p)
        \/ gitFetch(p)
        \/ gitCheckout(p)
        \/ GetRead(p)
        \/ List(p)
        \/ writeFile(p)
        \/ UpsertStatus(p)
        \/ DeleteRemove(p)
        \/ Commit(p)
        \/ Push(p)
        \/ ReturnRead(p)

SpecSync == Init /\ [][NextSync]_vars

\* ------------------------------------------------- file locks, step by step
\* writeFile up to matchFile.Lock(): Stat and the mode's precondition, then
\* OpenFile (an absent file is created empty) and the lock on the open file.
writeOpen(p) ==
    LET m == mirrorOf[p]
        k == call[p].key
    IN
    /\ pc[p] = "write"
    /\ Sched(p)
    /\ \/ /\ NotDir(wt[m], k)
          /\ Fail(p, "stat")
          /\ UNCHANGED <<wt, flock>>
       \/ /\ call[p].op = "Create"
          /\ ~NotDir(wt[m], k)
          /\ Has(wt[m], k) \/ IsDir(wt[m], k)
          /\ Fail(p, "exists")
          /\ UNCHANGED <<wt, flock>>
       \/ /\ call[p].op = "Upsert"
          /\ IsDir(wt[m], k)
          /\ Fail(p, "isdir")
          /\ UNCHANGED <<wt, flock>>
       \/ /\ ~NotDir(wt[m], k)
          /\ ~IsDir(wt[m], k)
          /\ call[p].op = "Create" => ~Has(wt[m], k)
          /\ wt' = [wt EXCEPT ![m] = Put(@, k, OpenFile(wt[m], k))]
          /\ \/ /\ Faulty(p)             \* Lock returns an error
                /\ Fail(p, "lock")
                /\ UNCHANGED flock
             \/ /\ \A h \in flock : <<h[1], h[2]>> # <<m, k>>
                /\ flock' = flock \cup {<<m, k, p>>}
                /\ pc' = [pc EXCEPT ![p] = "locked"]
                /\ UNCHANGED ret
    /\ UNCHANGED <<remote, repo, linked, head, branchRef, defaultRef, index,
                   call, prev, lock, mirrorOf, initHead, useLock, kept, got, cfg>>

\* writeFile under the lock: Truncate(0), Write(data), `git add key`; the
\* first error ends it.
writeLocked(p) ==
    LET m == mirrorOf[p]
        k == call[p].key
        written == Write(Truncate(wt[m][k]), call[p].data)
    IN
    /\ pc[p] = "locked"
    /\ Sched(p)
    /\ \E fault \in {"none", "write", "add"} :
          /\ wt' = [wt EXCEPT ![m] = Put(@, k,
                 IF fault = "write" THEN Truncate(wt[m][k]) ELSE written)]
          /\ index' = [index EXCEPT ![m] =
                 IF fault = "none" THEN Put(@, k, written) ELSE @]
          /\ ret' = [ret EXCEPT ![p].err = fault]
    /\ pc' = [pc EXCEPT ![p] = "unlock"]
    /\ UNCHANGED <<remote, repo, linked, head, branchRef, defaultRef,
                   call, prev, lock, cfgVars>>

\* Get up to matchFile.Lock(): open the key read-only, then the lock.
getOpen(p) ==
    LET m == mirrorOf[p]
        k == call[p].key
    IN
    /\ pc[p] = "read"
    /\ Sched(p)
    /\ \/ /\ ~Has(wt[m], k)
          /\ ~IsDir(wt[m], k)
          /\ Fail(p, "notfound")
          /\ UNCHANGED flock
       \/ /\ Has(wt[m], k) \/ IsDir(wt[m], k)
          /\ Faulty(p)                    \* Lock returns an error
          /\ Fail(p, "lock")
          /\ UNCHANGED flock
       \/ /\ Has(wt[m], k) \/ IsDir(wt[m], k)
          /\ \A h \in flock : <<h[1], h[2]>> # <<m, k>>
          /\ flock' = flock \cup {<<m, k, p>>}
          /\ pc' = [pc EXCEPT ![p] = "reading"]
          /\ UNCHANGED ret
    /\ UNCHANGED <<remote, mirrorVars, call, prev, lock,
                   mirrorOf, initHead, useLock, kept, got, cfg>>

\* Get under the lock: buf.ReadFrom(matchFile).
getLocked(p) ==
    LET m == mirrorOf[p]
        k == call[p].key
    IN
    /\ pc[p] = "reading"
    /\ Sched(p)
    /\ ret' = IF Has(wt[m], k)
              THEN [ret EXCEPT ![p].data = wt[m][k]]
              ELSE [ret EXCEPT ![p].err = "read"]
    /\ pc' = [pc EXCEPT ![p] = "unlock"]
    /\ UNCHANGED <<remote, mirrorVars, call, prev, lock, cfgVars>>

\* An unlock that is a statement at the end of the step instead of a deferred
\* call: a return with an error leaves the step before it.
UnlockAtEnd(p) ==
    /\ pc[p] = "unlock"
    /\ Sched(p)
    /\ flock' = IF ret[p].err = "none"
                THEN flock \ {<<mirrorOf[p], call[p].key, p>>} ELSE flock
    /\ pc' = [pc EXCEPT ![p] =
           IF ret[p].err # "none" \/ call[p].op = "Get" THEN "done"
           ELSE IF call[p].op = "Upsert" THEN "status" ELSE "commit"]
    /\ UNCHANGED <<remote, mirrorVars, call, ret, prev, lock,
                   mirrorOf, initHead, useLock, kept, got, cfg>>

\* The deferred matchFile.Unlock() and matchFile.Close(), run when Get or
\* writeFile returns, with or without an error.
Unlock(p) ==
    /\ pc[p] = "unlock"
    /\ Sched(p)
    /\ flock' = flock \ {<<mirrorOf[p], call[p].key, p>>}
    /\ pc' = [pc EXCEPT ![p] =
           IF ret[p].err # "none" \/ call[p].op = "Get" THEN "done"
           ELSE IF call[p].op = "Upsert" THEN "status" ELSE "commit"]
    /\ UNCHANGED <<remote, mirrorVars, call, ret, prev, lock,
                   mirrorOf, initHead, useLock, kept, got, cfg>>

\* One handle reads, creates and upserts; Get and writeFile run step by step.
CallFile(p) ==
    /\ Faulty(p)
    /\ \E op \in {"Get", "Create", "Upsert"}, k \in Keys :
          Enter(p, op, k, IF op = "Get" THEN <<>> ELSE <<1>>, FALSE, "")

NextFile ==
    \E p \in Procs :
        \/ CallFile(p)
        \/ gitClone(p)
        \/ gitFetch(p)
        \/ gitCheckout(p)
        \/ getOpen(p)
        \/ getLocked(p)
        \/ writeOpen(p)
        \/ writeLocked(p)
        \/ Unlock(p)
        \/ UpsertStatus(p)
        \/ Commit(p)
        \/ Push(p)
        \/ Return(p)

SpecFile == Init /\ [][NextFile]_vars

\* ------------------------------------------------- one handle, two callers
\* Two callers use one handle, and so one mirror, without serializing their
\* calls: each upserts a key of its own.
InitShared ==
    /\ InitCommon
    /\ mirrorOf = [p \in Procs |-> "m1"]
    /\ useLock = FALSE
    /\ cfg = NoCfg

CallShared(p) ==
    Enter(p, "Upsert", IF p = "p1" THEN "k1" ELSE "k2", <<1>>, FALSE, "")

NextShared ==
    \E p \in Procs :
        \/ CallShared(p)
        \/ gitClone(p)
        \/ gitFetch(p)
        \/ gitCheckout(p)
        \/ writeFile(p)
        \/ UpsertStatus(p)
        \/ Commit(p)
        \/ Push(p)
        \/ Return(p)

SpecShared == InitShared /\ [][NextShared]_vars

\* ------------------------------------------------- content accessors
\* An accessor that opens the entry's key in the working area.
ReaderOfFile(m, e) ==
    IF Has(wt[m], e.k) THEN [err |-> "none", data |-> wt[m][e.k]]
    ELSE [err |-> "notfound", data |-> <<>>]

\* kvIter.Value: file.Reader of the object.File that tree.Files() gave, a
\* reader of that file's blob in the object store of the local repository.
Reader(m, e) ==
    IF repo[m] THEN [err |-> "none", data |-> e.v]
    ELSE [err |-> "notfound", data |-> <<>>]

\* The call returns; the caller of a successful List holds on to its entries.
ReturnKeep(p) ==
    /\ pc[p] = "done"
    /\ Sched(p)
    /\ pc' = [pc EXCEPT ![p] = "idle"]
    /\ prev' = [prev EXCEPT ![p] =
           IF Remembered(call[p], ret[p]) THEN Summary(call[p], ret[p]) ELSE NoPrev]
    /\ kept' = IF call[p].op = "List" /\ ret[p].err = "none"
               THEN [kept EXCEPT ![p] =
                        [tip |-> branchRef[mirrorOf[p]], kvs |-> ret[p].kvs]]
               ELSE kept
    /\ call' = [call EXCEPT ![p] = NoCall]
    /\ ret' = [ret EXCEPT ![p] = NoRet]
    /\ lock' = IF useLock THEN "none" ELSE lock
    /\ UNCHANGED <<remote, mirrorVars, mirrorOf, initHead, useLock, flock, got, cfg>>

\* Between calls the caller uses the content accessor of an entry it holds.
Value(p) ==
    /\ pc[p] = "idle"
    /\ \E e \in kept[p].kvs :
          got' = [got EXCEPT ![p] =
                     [tip |-> kept[p].tip, k |-> e.k,
                      err |-> Reader(mirrorOf[p], e).err,
                      data |-> Reader(mirrorOf[p], e).data]]
    /\ UNCHANGED <<remote, mirrorVars, pc, call, ret, prev, lock,
                   mirrorOf, initHead, useLock, flock, kept, cfg>>

\* One handle lists, upserts and deletes.
CallIter(p) ==
    /\ Faulty(p)
    /\ \E op \in {"List", "Upsert", "Delete"}, k \in Keys : \E d \in Data(k) :
          /\ op = "List" => k = "k1"
          /\ op # "Upsert" => d = <<1>>
          /\ Enter(p, op, k, IF op = "Upsert" THEN d ELSE <<>>, FALSE, "")

NextIter ==
    \E p \in Procs :
        \/ CallIter(p)
        \/ gitClone(p)
        \/ gitFetch(p)
        \/ gitCheckout(p)
        \/ List(p)
        \/ writeFile(p)
        \/ UpsertStatus(p)
        \/ DeleteRemove(p)
        \/ Commit(p)
        \/ Push(p)
        \/ ReturnKeep(p)
        \/ Value(p)

SpecIter == Init /\ [][NextIter]_vars

\* ------------------------------------------------- commit message options
\* A message is a sequence of characters.
Chars == {" ", "a"}

Messages == UNION {[1 .. n -> Chars] : n \in 0 .. MaxMsg}

\* The lists of messages a caller passes as commit-message options.
OptLists == UNION {[1 .. n -> Messages] : n \in 0 .. MaxOpts}

RECURSIVE TrimLeft(_)
TrimLeft(msg) ==
    IF msg # <<>> /\ Head(msg) = " " THEN TrimLeft(Tail(msg)) ELSE msg

RECURSIVE TrimRight(_)
TrimRight(msg) ==
    IF msg # <<>> /\ msg[Len(msg)] = " "
    THEN TrimRight(SubSeq(msg, 1, Len(msg) - 1)) ELSE msg

\* strings.TrimSpace
TrimSpace(msg) == TrimRight(TrimLeft(msg))

\* The commitMsg the config of each operation is constructed with.
DefaultMsg(op) ==
    CASE op = "Create" ->
            <<"g", "i", "t", "r", "o", "w", "s", ":", " ", "C", "R", "E", "A", "T", "E">>
      [] op = "Upsert" ->
            <<"g", "i", "t", "r", "o", "w", "s", ":", " ", "U", "P", "S", "E", "R", "T">>
      [] op = "Delete" ->
            <<"g", "i", "t", "r", "o", "w", "s", ":", " ", "D", "E", "L", "E", "T", "E">>

\* A message option that assigns whatever is left of the message.
CommitMsgAssign(config, msg) == [config EXCEPT !.commitMsg = TrimSpace(msg)]

CreateCommitMsg(config, msg) ==
    IF TrimSpace(msg) = <<>> THEN config
    ELSE [config EXCEPT !.commitMsg = TrimSpace(msg)]

UpsertCommitMsg(config, msg) ==
    IF TrimSpace(msg) = <<>> THEN config
    ELSE [config EXCEPT !.commitMsg = TrimSpace(msg)]

DeleteCommitMsg(config, msg) ==
    IF TrimSpace(msg) = <<>> THEN config
    ELSE [config EXCEPT !.commitMsg = TrimSpace(msg)]

\* A Create, Upsert or Delete is entered with a list of message options: its
\* config is constructed with the operation's default message.
InitMsg ==
    /\ InitCommon
    /\ mirrorOf = [p \in Procs |-> IF p = "p1" THEN "m1" ELSE "m2"]
    /\ useLock = FALSE
    /\ \E op \in {"Create", "Upsert", "Delete"}, given \in OptLists :
          cfg = [op |-> op, opts |-> given, given |-> given,
                 commitMsg |-> DefaultMsg(op), at |-> "opts", message |-> <<>>]

\* One round of `for _, opt := range opts { err = opt(cfg) }`.
ApplyOpt ==
    /\ cfg.at = "opts"
    /\ cfg.opts # <<>>
    /\ cfg' = [(CASE cfg.op = "Create" -> CreateCommitMsg(cfg, Head(cfg.opts))
                  [] cfg.op = "Upsert" -> UpsertCommitMsg(cfg, Head(cfg.opts))
                  [] cfg.op = "Delete" -> DeleteCommitMsg(cfg, Head(cfg.opts)))
               EXCEPT !.opts = Tail(cfg.opts)]
    /\ UNCHANGED <<remote, mirrorVars, pc, call, ret, prev, lock,
                   mirrorOf, initHead, useLock, flock, kept, got>>

\* commitMsg := cfg.commitMsg; worktree.Commit(commitMsg, ...)
CommitMessage ==
    /\ cfg.at = "opts"
    /\ cfg.opts = <<>>
    /\ cfg' = [cfg EXCEPT !.at = "committed", !.message = cfg.commitMsg]
    /\ UNCHANGED <<remote, mirrorVars, pc, call, ret, prev, lock,
                   mirrorOf, initHead, useLock, flock, kept, got>>

NextMsg == ApplyOpt \/ CommitMessage

SpecMsg == InitMsg /\ [][NextMsg]_vars

\* ------------------------------------------------------------ vocabulary
Writes == {"Create", "Upsert", "Delete"}

\* The caller's call has returned and its results are in ret[p].
Done(p) == pc[p] = "done"

\* forcePull has just returned nil: the call stands at its own first step.
Synced(p) == pc[p] \in {"read", "list", "write", "remove"}

\* An error of the Synchronizer or an injected file fault.
Faults == {"sync", "lock", "write", "add"}

\* The positions of Synchronize (forcePull) within a call.
SyncPcs == {"clone", "fetch", "checkout"}

\* The order of the positions within one call.
Rank(at) ==
    CASE at = "idle" -> 0
      [] at = "clone" -> 1
      [] at = "fetch" -> 2
      [] at = "checkout" -> 3
      [] at \in {"read", "list", "write", "remove"} -> 4
      [] at = "status" -> 5
      [] at = "commit" -> 6
      [] at = "push" -> 7
      [] at = "done" -> 8

\* The positions of the operation-specific steps: record read, listing,
\* record write and staging, status, removal, commit and publish.
OpPcs == {"read", "list", "write", "status", "remove", "commit", "push"}

\* C1: after every successful Synchronize the local branch reference equals
\* the remote tip it fetched, and the working area and the index hold exactly
\* the records of that tip's tree, whatever earlier calls left behind.
C1_SyncConverges ==
    \A p \in Procs :
        Synced(p) =>
            LET m == mirrorOf[p]
                tip == call[p].fetched
            IN  /\ branchRef[m] = tip
                /\ wt[m] = TreeOf(tip)
                /\ index[m] = TreeOf(tip)

\* C2: a call that returns an error has not moved the remote branch
\* reference, and the remote branch reference moves only in a step in which
\* a publish succeeds (to the revision that publish pushed).
C2_RemoteOnlyByPublish ==
    [][/\ remote' # remote =>
            \E p \in Procs :
                /\ pc[p] = "push"
                /\ Done(p)'
                /\ ret'[p].err = "none"
                /\ remote' = branchRef[mirrorOf[p]]
       /\ \A p \in Procs :
            (Done(p)' /\ ret'[p].err # "none") =>
                /\ call'[p].pushed = NoRev
                /\ ~Done(p) => remote' = remote]_vars

\* A write call returned an error from its publish while the remote holds
\* revisions: the remote was left alone.
C2_Witness ==
    /\ Done("p1")
    /\ call["p1"].op \in Writes
    /\ ret["p1"].err = "push"
    /\ remote # NoRev
    /\ branchRef["m1"] # remote

\* C3: a Create, Delete or changing Upsert either succeeds, and then the
\* revision it returns was pushed, has the pre-mutation tip (the branch
\* reference its Synchronize left) as parent and is reachable from the remote
\* tip; or it fails after its Synchronize, and then nothing was pushed and the
\* local branch reference is still the pre-mutation tip.
C3_OneRevisionOrNothing ==
    \A p \in Procs :
        (Done(p) /\ call[p].op \in Writes) =>
            LET m == mirrorOf[p] IN
            /\ (ret[p].err = "none" /\ ret[p].rev # call[p].tip) =>
                    /\ call[p].pushed = ret[p].rev
                    /\ ParentOf(ret[p].rev) = call[p].tip
                    /\ Reachable(ret[p].rev, remote)
            /\ ret[p].err \notin {"none", "sync"} =>
                    /\ call[p].pushed = NoRev
                    /\ branchRef[m] = call[p].tip

\* The caller's latest completed call: the one that has just returned, or
\* else the remembered one.
Last(p) == IF Done(p) THEN Summary(call[p], ret[p]) ELSE prev[p]

\* The summary is of a call that succeeded and published the revision it
\* returned.
Published(a) ==
    /\ a.op \in Writes
    /\ a.err = "none"
    /\ a.rev # NoRev
    /\ a.pub = a.rev
    /\ a.rev # a.fetched

\* C4: two handles synchronized at the same remote tip and upserted
\* different keys; one has published.  When the other attempts its publish,
\* the call returns a publish error and the remote branch reference does not
\* change.
C4_ConflictSurfaced ==
    [][\A p \in Procs : \A q \in Procs \ {p} :
          (/\ pc[p] = "push"
           /\ Done(p)'
           /\ call[p].op = "Upsert"
           /\ Last(q).op = "Upsert"
           /\ Published(Last(q))
           /\ Last(q).key # call[p].key
           /\ Last(q).fetched = call[p].fetched
           /\ remote = Last(q).rev)
          => /\ ret'[p].err = "push"
             /\ remote' = remote]_vars

\* C5: the revision that a handle's latest successful Create, Upsert or
\* Delete returned and published is reachable from the remote branch tip,
\* whatever any handle did since.
C5_Durable ==
    \A p \in Procs :
        Published(Last(p)) => Reachable(Last(p).rev, remote)

\* C6: when every call runs entirely under the external lock, a publish is
\* attempted only while the remote tip is still the one the call fetched (no
\* conflict can arise), and the remote history is linear: a publish moves the
\* remote branch reference to a revision whose parent is the previous remote
\* tip.
C6_LockedLinear ==
    [][/\ \A p \in Procs : (pc[p] = "push" /\ Done(p)') => remote = call[p].fetched
       /\ remote' # remote => ParentOf(remote') = remote]_vars

\* The handle's previous call was a successful call of `op`, and the call
\* that has now returned got through its Synchronize, on the same key, with
\* the remote tip still where the previous call left it.
Follows(p, op) ==
    /\ Done(p)
    /\ prev[p].op = op
    /\ prev[p].err = "none"
    /\ prev[p].key = call[p].key
    /\ call[p].fetched = prev[p].pub
    /\ ret[p].err # "sync"

\* C7: a Get that follows a successful Upsert(k, v) of the same handle with
\* no remote change in between returns exactly v (unless the file lock fails).
C7_UpsertGetRoundTrip ==
    \A p \in Procs :
        (Follows(p, "Upsert") /\ call[p].op = "Get" /\ ret[p].err # "lock") =>
            /\ ret[p].err = "none"
            /\ ret[p].data = prev[p].data

\* The call that has returned is an Upsert without allowEmptyCommit whose
\* content is the key's content at the tip it fetched, and no file step failed.
SameContentUpsert(p) ==
    /\ Done(p)
    /\ call[p].op = "Upsert"
    /\ ~call[p].allowEmpty
    /\ Has(TreeOf(call[p].fetched), call[p].key)
    /\ TreeOf(call[p].fetched)[call[p].key] = call[p].data
    /\ ret[p].err \notin Faults

\* C8: an Upsert of identical content, empty commits disallowed, returns
\* success with changed = false and the current tip's revision; it creates no
\* revision and publishes nothing.  After a successful Upsert(k, v) a second
\* Upsert(k, v) returns the same revision.
C8_UpsertNoOp ==
    \A p \in Procs :
        SameContentUpsert(p) =>
            /\ ret[p].err = "none"
            /\ ~ret[p].changed
            /\ ret[p].rev = call[p].fetched
            /\ call[p].pushed = NoRev
            /\ branchRef[mirrorOf[p]] = call[p].fetched
            /\ (Follows(p, "Upsert") /\ prev[p].data = call[p].data) =>
                    ret[p].rev = prev[p].rev

\* C9: a successful Upsert that does not take the no-op short-circuit (empty
\* commits allowed, or a revision was published) has published the revision
\* it returns and returns changed = true.
C9_UpsertChanged ==
    \A p \in Procs :
        (/\ Done(p)
         /\ call[p].op = "Upsert"
         /\ ret[p].err = "none"
         /\ call[p].allowEmpty \/ call[p].pushed # NoRev) =>
            /\ ret[p].rev # NoRev
            /\ call[p].pushed = ret[p].rev
            /\ ret[p].changed

\* C10: a Create(k, v2) that follows a successful Create(k, v) fails with
\* "key exists", creates no revision, publishes nothing, and k still holds v.
C10_CreateUnique ==
    \A p \in Procs :
        (Follows(p, "Create") /\ call[p].op = "Create") =>
            LET m == mirrorOf[p] IN
            /\ ret[p].err = "exists"
            /\ ret[p].rev = NoRev
            /\ call[p].pushed = NoRev
            /\ branchRef[m] = call[p].tip
            /\ Has(wt[m], call[p].key)
            /\ wt[m][call[p].key] = prev[p].data

\* C11: after a successful Delete(k) by any handle, a Get(k) by the same or
\* another handle whose Synchronize fetched the tip that Delete left fails
\* with the not-found error (unless its Synchronize or its file lock fails).
C11_DeleteThenGet ==
    \A p \in Procs : \A q \in Procs :
        (/\ Done(p)
         /\ call[p].op = "Get"
         /\ ret[p].err \notin {"sync", "lock"}
         /\ (IF q = p THEN prev[q] ELSE Last(q)).op = "Delete"
         /\ (IF q = p THEN prev[q] ELSE Last(q)).err = "none"
         /\ (IF q = p THEN prev[q] ELSE Last(q)).key = call[p].key
         /\ (IF q = p THEN prev[q] ELSE Last(q)).pub = call[p].fetched)
        => ret[p].err = "notfound"

\* C13: a Get(k) returns exactly the bytes stored at k in the remote tip its
\* Synchronize fetched, and fails with not-found exactly when that tip has no
\* record at k (unless its Synchronize or its file lock fails).
C13_GetReadsRemoteTip ==
    \A p \in Procs :
        (Done(p) /\ call[p].op = "Get" /\ ret[p].err \notin {"sync", "lock"}) =>
            LET tree == TreeOf(call[p].fetched)
                k == call[p].key
            IN  IF Has(tree, k)
                THEN ret[p].err = "none" /\ ret[p].data = tree[k]
                ELSE ret[p].err = "notfound"

\* C12: an Upsert on a key that names a directory and a Delete on a key
\* that is absent return an error in the step that finds the precondition
\* unmet; that step changes nothing in the working area, the index or any
\* reference, and the call has published nothing.
C12_PreconditionNoMutation ==
    [][\A p \in Procs :
          LET m == mirrorOf[p]
              k == call[p].key
          IN  (\/ pc[p] = "write" /\ call[p].op = "Upsert" /\ IsDir(wt[m], k)
               \/ pc[p] = "remove" /\ ~Has(wt[m], k))
              /\ pc'[p] # pc[p]
              => /\ Done(p)'
                 /\ ret'[p].err = IF call[p].op = "Upsert" THEN "isdir" ELSE "notfound"
                 /\ ret'[p].rev = NoRev
                 /\ call'[p].pushed = NoRev
                 /\ <<remote, mirrorVars>>' = <<remote, mirrorVars>>]_vars

\* An Upsert on a directory key has returned its error while a record lies
\* below that directory.
C12_Witness ==
    /\ Done("p1")
    /\ call["p1"].op = "Upsert"
    /\ ret["p1"].err = "isdir"
    /\ Has(wt["m1"], "d/k1")
    /\ call["p1"].key = "d"
    /\ remote # NoRev

\* Key() and Value() of the entries of a List result.
KeyValues(kvs) == {[k |-> e.k, v |-> e.v] : e \in kvs}

\* C14: starting from a branch with no records, after a successful
\* Upsert(k1, a) and a successful Upsert(k2, b) in either order (one by this
\* handle, one by the other, the remote tip untouched in between), List
\* returns exactly the two keys, one entry each, with the upserted contents.
C14_ListComplete ==
    \A p \in Procs : \A q \in Procs \ {p} :
        LET u == prev[p]
            w == Last(q)
        IN  (/\ Done(p) /\ call[p].op = "List" /\ ret[p].err # "sync"
             /\ u.op = "Upsert" /\ u.err = "none"
             /\ w.op = "Upsert" /\ w.err = "none"
             /\ u.key # w.key
             /\ \/ u.fetched = NoRev /\ w.fetched = u.pub /\ call[p].fetched = w.pub
                \/ w.fetched = NoRev /\ u.fetched = w.pub /\ call[p].fetched = u.pub)
            => /\ ret[p].err = "none"
               /\ Cardinality(ret[p].kvs) = 2
               /\ KeyValues(ret[p].kvs) = {[k |-> u.key, v |-> u.data],
                                [k |-> w.key, v |-> w.data]}

\* C15: a successful List with a non-empty prefix returns exactly the entries
\* of the listed tip whose immediate parent directory equals the prefix;
\* without a prefix it returns every entry of the tip.
C15_ListPrefixFilter ==
    \A p \in Procs :
        LET tip == branchRef[mirrorOf[p]]
            pre == call[p].prefix
        IN  (Done(p) /\ call[p].op = "List" /\ ret[p].err = "none") =>
                KeyValues(ret[p].kvs) =
                    IF pre = "" THEN Files(tip) ELSE {e \in Files(tip) : Dir(e.k) = pre}

\* C16: every entry of a successful List has a non-empty last-modifying
\* revision: the listed tip, or an ancestor of the tip at which the key's
\* record differs from the parent's and since which it has not changed.
C16_LastCommitFallback ==
    \A p \in Procs :
        LET tip == branchRef[mirrorOf[p]] IN
        (Done(p) /\ call[p].op = "List" /\ ret[p].err = "none") =>
            \A e \in ret[p].kvs :
                /\ e.rev # NoRev
                /\ \/ e.rev = tip
                   \/ /\ Len(e.rev) < Len(tip)
                      /\ e.rev = SubSeq(tip, 1, Len(e.rev))
                      /\ DiffersAt(tip, Len(e.rev), e.k)
                      /\ \A j \in Len(e.rev) + 1 .. Len(tip) : ~DiffersAt(tip, j, e.k)

\* A List has returned an entry whose key did not change at the tip and that
\* reports the tip all the same: the fall-back of a shallow window.
C16_Witness ==
    \E p \in Procs :
        LET tip == branchRef[mirrorOf[p]] IN
        /\ Done(p) /\ call[p].op = "List" /\ ret[p].err = "none"
        /\ Len(tip) = 2
        /\ \E e \in ret[p].kvs : e.rev = tip /\ ~DiffersAt(tip, 2, e.k)

\* C17: every call starts with Synchronize; an operation step (read, write,
\* staging, commit, publish) is entered only from the last step of a
\* Synchronize that raised no error; a Synchronize step reads no record,
\* creates no revision and publishes nothing; when Synchronize fails the call
\* returns that error and goes back to the caller without any operation step.
C17_SyncFirst ==
    [][\A p \in Procs :
          /\ (pc[p] = "idle" /\ pc'[p] # "idle") => pc'[p] = "clone"
          /\ (pc'[p] \in OpPcs /\ pc[p] \notin OpPcs) =>
                 pc[p] = "checkout" /\ ret'[p].err = "none"
          /\ (pc[p] \in SyncPcs /\ pc'[p] # pc[p]) =>
                 /\ pc'[p] \in SyncPcs \cup OpPcs \cup {"done"}
                 /\ pc'[p] = "done" <=> ret'[p].err = "sync"
                 /\ remote' = remote
                 /\ ret'[p].rev = NoRev /\ ret'[p].data = <<>> /\ ret'[p].kvs = {}
                 /\ call'[p].pushed = NoRev
          /\ (pc[p] = "done" /\ pc'[p] # "done") => pc'[p] = "idle"]_vars

\* A call has returned the error of a Synchronize that failed at its fetch,
\* on a mirror that holds records.
C17_Witness ==
    \E p \in Procs :
        /\ Done(p) /\ ret[p].err = "sync" /\ repo[mirrorOf[p]]
        /\ call[p].op \in Writes
        /\ wt[mirrorOf[p]] # EmptyTree

\* C18: when a handle's previous call was a Get or a List whose Synchronize
\* succeeded and the remote tip is still the one that call fetched, no step
\* of the next Synchronize changes the working area or the local branch
\* reference, and the Synchronize fails only by a transport error of its
\* clone or fetch ("already exists" and "already up to date" are no errors).
C18_IdempotentSync ==
    [][\A p \in Procs :
          LET m == mirrorOf[p] IN
          (/\ pc[p] \in SyncPcs /\ pc'[p] # pc[p]
           /\ prev[p].op \in {"Get", "List"}
           /\ prev[p].fetched = remote
           /\ pc[p] = "checkout" => call[p].fetched = prev[p].fetched)
          => /\ wt'[m] = wt[m]
             /\ branchRef'[m] = branchRef[m]
             /\ pc'[p] = "done" =>
                    ret'[p].err = "sync" /\ Faulty(p) /\ pc[p] \in {"clone", "fetch"}]_vars

\* A second Synchronize in a row has completed on a mirror that holds
\* records, against the remote tip the first one fetched.
C18_Witness ==
    \E p \in Procs :
        /\ Synced(p)
        /\ prev[p].op \in {"Get", "List"}
        /\ prev[p].fetched = remote /\ call[p].fetched = remote
        /\ remote # NoRev
        /\ wt[mirrorOf[p]] # EmptyTree

\* C19: within one call every step moves forward, so Synchronize, the commit
\* and the publish are each run at most once; the publish step always ends
\* the call, and a publish that did not move the remote reference is returned
\* as an error, with no revision published and the mirror left as it was.
C19_NoRetry ==
    [][\A p \in Procs :
          /\ (pc'[p] # pc[p] /\ pc[p] # "done") => Rank(pc'[p]) > Rank(pc[p])
          /\ (pc'[p] # pc[p] /\ pc[p] = "done") => pc'[p] = "idle"
          /\ (pc'[p] # pc[p] /\ pc[p] = "push") =>
                 /\ pc'[p] = "done"
                 /\ remote' = remote <=> ret'[p].err = "push"
                 /\ remote' # remote <=> ret'[p].err = "none"
                 /\ remote' = remote => call'[p].pushed = NoRev
                 /\ mirrorVars' = mirrorVars]_vars

\* A write call has returned the error of its failed publish while its
\* revision stays unpublished in the mirror.
C19_Witness ==
    \E p \in Procs :
        /\ Done(p) /\ call[p].op \in Writes /\ ret[p].err = "push"
        /\ ret[p].rev # NoRev /\ ret[p].rev # remote
        /\ remote # NoRev

\* C20: the message of the revision of a Create, Upsert or Delete is one of
\* the caller's messages, trimmed of surrounding whitespace, that is non-empty
\* once trimmed (the only one when one such message was given); when no
\* option was given or every message is empty or whitespace only, it is the
\* operation's default.  An empty message never erases a non-empty one.
C20_CommitMessage ==
    LET trimmed == {TrimSpace(cfg.given[i]) : i \in 1 .. Len(cfg.given)} \ {<<>>}
    IN  cfg.at = "committed" =>
            /\ cfg.message # <<>>
            /\ IF trimmed = {} THEN cfg.message = DefaultMsg(cfg.op)
                               ELSE cfg.message \in trimmed

\* A revision was committed with the first option's message, given with
\* surrounding whitespace, after a second option with a blank message.
C20_Witness ==
    /\ cfg.at = "committed"
    /\ Len(cfg.given) = 2
    /\ cfg.given[1] # TrimSpace(cfg.given[1])
    /\ TrimSpace(cfg.given[1]) # <<>>
    /\ cfg.given[2] # <<>> /\ TrimSpace(cfg.given[2]) = <<>>
    /\ cfg.message = TrimSpace(cfg.given[1])

\* C21: within one Synchronize the steps run in the order clone or init,
\* remote link and fetch, checkout.  The fetch starts on an existing local
\* repository, the checkout on a linked one.  The first failing step ends the
\* Synchronize with its error and what the later steps would change is left
\* alone.  The remote link changes only in a clone or a fetch; a fetch creates
\* it when absent and otherwise keeps it, and fails only by a transport error.
C21_SyncStepOrder ==
    [][\A p \in Procs :
          LET m == mirrorOf[p]
              stepped == pc'[p] # pc[p]
          IN
          /\ (pc[p] = "clone" /\ stepped) =>
                 /\ pc'[p] \in {"fetch", "done"}
                 /\ pc'[p] = "fetch" => repo'[m]
                 /\ pc'[p] = "done" =>
                        /\ ret'[p].err = "sync"
                        /\ <<linked, head, branchRef, index, wt>>'
                               = <<linked, head, branchRef, index, wt>>
          /\ (pc[p] = "fetch" /\ stepped) =>
                 /\ repo[m]
                 /\ pc'[p] \in {"checkout", "done"}
                 /\ linked'[m]
                 /\ pc'[p] = "done" =>
                        /\ ret'[p].err = "sync" /\ Faulty(p)
                        /\ <<head, branchRef, index, wt>>' = <<head, branchRef, index, wt>>
          /\ (pc[p] = "checkout" /\ stepped) =>
                 /\ repo[m] /\ linked[m]
                 /\ pc'[p] \in OpPcs \cup {"done"}
                 /\ pc'[p] = "done" => ret'[p].err = "sync"
          /\ linked'[m] # linked[m] =>
                 \E q \in Procs : mirrorOf[q] = m /\ pc'[q] # pc[q]
                                    /\ pc[q] \in {"clone", "fetch"}]_vars

\* A Synchronize has come to its checkout on a handle that wrote before: its
\* fetch found the remote link in place.
C21_Witness ==
    \E p \in Procs :
        /\ pc[p] = "checkout"
        /\ prev[p].op \in Writes
        /\ linked[mirrorOf[p]]
        /\ call[p].fetched = remote /\ remote # NoRev

\* C22: on a remote without a revision for the branch, a fetch that meets no
\* transport error goes on with HEAD naming the branch, and the checkout
\* that follows succeeds; a Create or Upsert that then returns success has
\* created the branch: the remote reference is a parentless revision whose
\* tree holds exactly the written key with the written content.
C22_EmptyRemoteBootstrap ==
    [][\A p \in Procs :
          LET m == mirrorOf[p]
              stepped == pc'[p] # pc[p]
          IN
          /\ (pc[p] = "fetch" /\ stepped /\ remote = NoRev /\ pc'[p] # "done") =>
                 head'[m] = "branch"
          /\ (pc[p] = "checkout" /\ stepped /\ remote = NoRev) =>
                 pc'[p] \in OpPcs
          /\ (/\ pc[p] # "done" /\ pc'[p] = "done"
              /\ call[p].op \in {"Create", "Upsert"}
              /\ ret'[p].err = "none"
              /\ remote = NoRev)
             => /\ remote' # NoRev
                /\ ParentOf(remote') = NoRev
                /\ TreeOf(remote') = Put(EmptyTree, call[p].key, call[p].data)]_vars

\* C23: a Synchronize that succeeded while the remote had no revision for the
\* branch leaves the local branch without a revision, whatever an earlier
\* call committed without publishing it; a Create that follows does not fail
\* with key-exists on a record of such an unpublished commit.
C23_EmptyRemoteDiscards ==
    \A p \in Procs :
        LET m == mirrorOf[p] IN
        /\ (Synced(p) /\ call[p].fetched = NoRev) => branchRef[m] = NoRev
        /\ (/\ Done(p) /\ call[p].op = "Create" /\ call[p].fetched = NoRev
            /\ Has(TreeOf(call[p].tip), call[p].key))
           => ret[p].err # "exists"

\* C24: with every call wrapped in the callers' lock, the revision that a
\* successful Create(k), Upsert(k) or Delete(k) published has the tip the call
\* synchronized to as its parent, and its tree differs from that tip's only
\* at k: every other key has the same presence and content in both.
C24_SingleKeyEffect ==
    \A p \in Procs :
        LET new == call[p].pushed
            old == call[p].fetched
        IN  (/\ Done(p) /\ call[p].op \in Writes
             /\ ret[p].err = "none" /\ new # NoRev)
            => /\ ParentOf(new) = old
               /\ \A k \in Keys \ {call[p].key} :
                     /\ Has(TreeOf(new), k) <=> Has(TreeOf(old), k)
                     /\ Has(TreeOf(new), k) => TreeOf(new)[k] = TreeOf(old)[k]

\* The positions at which a call has a key's file open.
FilePcs == {"locked", "reading", "unlock"}

\* C25: a file lock is held only by a call inside its single-key read or
\* write step, on the key of that call; the read and the write run under the
\* lock; no lock is held by a call that is in its Synchronize, its commit or
\* its publish, or that has returned, with or without an error.
C25_FileLockScope ==
    /\ \A h \in flock :
          /\ pc[h[3]] \in FilePcs
          /\ h[1] = mirrorOf[h[3]]
          /\ h[2] = call[h[3]].key
          /\ call[h[3]].op \in {"Get", "Create", "Upsert"}
    /\ \A p \in Procs :
          pc[p] \in {"locked", "reading"} => <<mirrorOf[p], call[p].key, p>> \in flock

\* A write has returned the error of a step that failed under the lock, and
\* no lock is left.
C25_Witness ==
    \E p \in Procs :
        /\ Done(p) /\ call[p].op \in {"Create", "Upsert"}
        /\ ret[p].err \in {"write", "add"}
        /\ Has(wt[mirrorOf[p]], call[p].key)
        /\ flock = {}

\* Caller q has staged its write and not yet committed it.
Staged(q) ==
    /\ pc[q] \in {"status", "commit"}
    /\ Has(index[mirrorOf[q]], call[q].key)
    /\ index[mirrorOf[q]][call[q].key] = call[q].data

\* C26: on a handle used by two callers without serialization, a staged and
\* not yet committed write of one caller is taken out of the index by nothing
\* but the hard reset in the Synchronize of the other caller's call; the
\* state in which that has happened is reachable (C26_Witness).
C26_SharedHandleRace ==
    [][\A q \in Procs :
          (/\ Staged(q)
           /\ pc'[q] = pc[q]
           /\ ~Staged(q)')
          => \E p \in Procs \ {q} :
                /\ mirrorOf[p] = mirrorOf[q]
                /\ pc[p] = "checkout" /\ pc'[p] # "checkout"]_vars

\* One call's Synchronize has reset the index and the working area while the
\* other call stood between its write and its commit: the other call's key
\* is gone from both.
C26_Witness ==
    \E p \in Procs : \E q \in Procs \ {p} :
        /\ mirrorOf[p] = mirrorOf[q]
        /\ call[p].key # call[q].key
        /\ pc[p] = "write"
        /\ pc[q] \in {"status", "commit"}
        /\ ~Has(index[mirrorOf[q]], call[q].key)
        /\ ~Has(wt[mirrorOf[q]], call[q].key)

\* C27: every use of the content accessor of a List entry gives, without an
\* error, the content the entry's key had at the tip that List resolved,
\* whatever later calls did to the key and to the mirror.
C27_AccessorBound ==
    \A p \in Procs :
        got[p] # NoGot =>
            /\ got[p].err = "none"
            /\ Has(TreeOf(got[p].tip), got[p].k)
            /\ got[p].data = TreeOf(got[p].tip)[got[p].k]

\* An accessor was used after the key of its entry was upserted or deleted
\* and the mirror synchronized again: the working area no longer has the
\* listed content at the key.
C27_Witness ==
    \E p \in Procs :
        /\ got[p] # NoGot
        /\ pc[p] = "idle"
        /\ branchRef[mirrorOf[p]] # got[p].tip
        /\ remote # got[p].tip
        /\ ~Has(wt[mirrorOf[p]], got[p].k) \/ wt[mirrorOf[p]][got[p].k] # got[p].data

\* C28: no step of a List call changes the remote, creates a revision or
\* enters a write, commit or publish step; and a List whose Synchronize found
\* the remote without a revision for the branch returns the error of
\* resolving the branch reference, with no listing.
C28_ListOnEmptyBranch ==
    [][\A p \in Procs :
          LET m == mirrorOf[p] IN
          (call[p].op = "List" /\ pc'[p] # pc[p]) =>
              /\ remote' = remote
              /\ branchRef'[m] \in {branchRef[m], remote}
              /\ defaultRef'[m] = defaultRef[m]
              /\ ret'[p].rev = NoRev
              /\ pc'[p] \notin {"write", "status", "remove", "commit", "push"}
              /\ (pc[p] = "list" /\ call[p].fetched = NoRev) =>
                     ret'[p].err = "ref" /\ ret'[p].kvs = {}]_vars

====
